---- MODULE Spec2Model ----
(***************************************************************************)
(* Model of the OAM reconcilers of stack-kubernetes-remote.                *)
(*                                                                         *)
(* Two descriptors are reconciled against one KubernetesApplication (the   *)
(* aggregate both of them name): the trait "t1" by the trait Reconciler    *)
(* (pkg/reconciler/trait), the workload "w1" by the workload Reconciler    *)
(* (pkg/reconciler/workload).  Every call of a Reconcile invocation to the *)
(* API server is one step, so that the invocations of the two identities   *)
(* interleave at the store calls; the controller work queue never runs two *)
(* invocations of one identity at a time, hence one pc per identity.       *)
(***************************************************************************)
EXTENDS Integers, Sequences, FiniteSets, TLC

\* ------------------------------------------------------------------ bounds
\* Reconcile invocations per identity.
MaxRuns == 2
\* Largest replica count a ManualScalerTrait asks for.
MaxReplicas == 2

\* --------------------------------------------------------------- constants
\* Requeue delays in seconds; 0 is the zero reconcile.Result.
shortWait == 30
longWait == 60
noWait == 0

errGetTrait == "cannot get trait"
errUpdateTraitStatus == "cannot update trait status"
errTraitModify == "cannot apply trait modification"
errGetPackage == "cannot get KubernetesApplication for workload reference in trait"
errApplyTraitModification == "cannot apply trait modification to KubernetesApplication"
errNotManualScalerTrait == "trait is not a manual scaler"
errNotContainerizedWorkload == "object is not a containerized workload"

\* Error strings of the workload Reconciler.
errGetWorkload == "cannot get workload"
errUpdateWorkloadStatus == "cannot update workload status"
errPackageWorkload == "cannot package workload"
errGetWorkloadPackage == "cannot get KubernetesApplication for workload"
errApplyWorkloadPackage == "cannot apply workload KubernetesApplication"

\* ------------------------------------------------------------------ errors
\* An error is the chain of its messages, outermost first: err.Error() joins
\* them with ": ".  The nil error is the empty chain.
NoErr == <<>>
errBoom == <<"boom">>
errNotFound == <<"not found">>
errDifferentController == <<"existing object has a different (or no) controller">>

\* errors.Wrap: nil stays nil, anything else gets the message in front.
Wrap(err, msg) == IF err = NoErr THEN NoErr ELSE <<msg>> \o err

IsNotFound(err) == err = errNotFound

\* resource.IgnoreNotFound
IgnoreNotFound(err) == IF IsNotFound(err) THEN NoErr ELSE err

\* -------------------------------------------------------------- conditions
\* The Synced condition of a descriptor; NoCond is a status without it.
NoCond == [reason |-> "", message |-> <<>>]
ReconcileSuccess == [reason |-> "Success", message |-> <<>>]
ReconcileError(err) == [reason |-> "Error", message |-> err]

\* SetConditions replaces the condition of the same type, whatever it was.
SetConditions(o, c) == [o EXCEPT !.cond = c]

\* ------------------------------------------------------------- identities
Traits == {"t1"}
Workloads == {"w1"}
Ids == Traits \cup Workloads

Owners == {"o1", "o2"}
NoController == "none"
Controllers == Owners \cup {NoController}

\* -------------------------------------------------------------- fragments
\* A resource template of the KubernetesApplication: the unstructured
\* document's kind and name, spec.replicas (0 when the key is absent),
\* whether it carries a key the typed appsv1.Deployment has no field for
\* (extra), and whether it carries the keys the typed encoding always writes
\* (zeroed: metadata.creationTimestamp: null, strategy: {}, status: {}).
Template(k, n, r, x, z) ==
    [kind |-> k, name |-> n, replicas |-> r, extra |-> x, zeroed |-> z]

InitTemplates ==
    { << Template("Service", "svc", 0, TRUE, FALSE),
         Template("Deployment", "web", 0, FALSE, TRUE) >>,
      << Template("Deployment", "web", 1, TRUE, FALSE),
         Template("Deployment", "db", 1, FALSE, FALSE) >> }

\* The zero-valued KubernetesApplication.
EmptyApp ==
    [controller |-> NoController, templates |-> <<>>, name |-> "", namespace |-> ""]

NotStored ==
    [exists |-> FALSE, controller |-> NoController, templates |-> <<>>,
     name |-> "", namespace |-> ""]

Stored(a) ==
    [exists |-> TRUE, controller |-> a.controller, templates |-> a.templates,
     name |-> a.name, namespace |-> a.namespace]

VARIABLES
    store,   \* the KubernetesApplication in the API server
    desc,    \* the descriptors in the API server, by identity
    pc,      \* where each identity's Reconcile invocation stands
    obj,     \* the invocation's copy of its descriptor (trait / workload)
    app,     \* the invocation's copy of the KubernetesApplication
    result,  \* what the last invocation returned: requeue delay and error
    fault,   \* which step of the invocation failed ("none": no step)
    seen,    \* what the invocation met: the condition it fetched, the errors of
             \* the application Get, of the failed step and of the status update
    calls,   \* store and modifier calls made by the invocation
    runs,    \* invocations started so far
    pure     \* a packager / modifier called on its own: arguments and outcome

vars == <<store, desc, pc, obj, app, result, fault, seen, calls, runs, pure>>


\* ------------------------------------------------------------- descriptors
\* A nil pointer field.
Nil == "nil"

\* A descriptor as the API server holds it: its Go type (variant), the
\* controller among its owner references, the ManualScalerTrait's
\* spec.replicaCount (0 for a workload), its Synced condition, and of a
\* ContainerizedWorkload's spec the operatingSystem and arch pointers and the
\* containers, each a name and its ports (name, port, protocol pointer).
\* workloadRef is the name of the workload a trait refers to (a workload's is
\* its own name) and names the KubernetesApplication, in the descriptor's
\* namespace.
Descriptor(v, c, r) ==
    [exists |-> TRUE, variant |-> v, controller |-> c, replicaCount |-> r,
     cond |-> NoCond, os |-> Nil, arch |-> Nil, containers |-> <<>>,
     workloadRef |-> "w1", namespace |-> "default"]

NoDescriptor ==
    [exists |-> FALSE, variant |-> "", controller |-> NoController,
     replicaCount |-> 0, cond |-> NoCond, os |-> Nil, arch |-> Nil,
     containers |-> <<>>, workloadRef |-> "", namespace |-> ""]

TraitDescriptors ==
    {NoDescriptor, Descriptor("Other", "o1", 1)}
    \cup {Descriptor("ManualScalerTrait", c, 1) : c \in Controllers}
    \cup {Descriptor("ManualScalerTrait", "o1", r) : r \in 2..MaxReplicas}

\* The workloads reconciled here have no selector and no container; the
\* packager on the others is the subject of SpecPure.
WorkloadDescriptors ==
    {NoDescriptor, Descriptor("Other", "o1", 0)}
    \cup {Descriptor("ContainerizedWorkload", c, 0) : c \in Owners}

InitStores ==
    {NotStored,
     Stored([controller |-> NoController,
             templates |-> << Template("Deployment", "web", 1, TRUE, FALSE) >>,
             name |-> "w1", namespace |-> "default"])}
    \cup {Stored([controller |-> "o1", templates |-> t,
                  name |-> "w1", namespace |-> "default"]) : t \in InitTemplates}

\* ---------------------------------------------------------------- modifier
\* runtime.DefaultUnstructuredConverter.FromUnstructured into an
\* appsv1.Deployment keeps the keys the type has fields for and drops the rest.
FromUnstructured(t) == [kind |-> t.kind, name |-> t.name, replicas |-> t.replicas]

\* ToUnstructured of a typed Deployment writes its fields and the zero-valued
\* keys that have no omitempty.
ToUnstructured(d) == Template(d.kind, d.name, d.replicas, FALSE, TRUE)

\* The loop body without the test of the kind.
ScaleTemplate_AnyKind(t, ms) ==
    ToUnstructured([FromUnstructured(t) EXCEPT !.replicas = ms.replicaCount])

\* The loop body of manualScalerModifier for the template at one index.
ScaleTemplate(t, ms) ==
    IF t.kind = "Deployment"
    THEN ToUnstructured([FromUnstructured(t) EXCEPT !.replicas = ms.replicaCount])
    ELSE t

\* The scaled Deployments appended instead of put back at their index.
manualScalerModifier_Appends(a, o) ==
    IF o.variant # "ManualScalerTrait"
    THEN [err |-> <<errNotManualScalerTrait>>, app |-> a]
    ELSE [err |-> NoErr,
          app |-> [a EXCEPT !.templates =
                      @ \o SelectSeq([i \in 1..Len(a.templates) |->
                                         ScaleTemplate(a.templates[i], o)],
                                     LAMBDA t : t.kind = "Deployment")]]

\* The templates scaled before the type of the object is looked at.
manualScalerModifier_ChecksLast(a, o) ==
    [err |-> IF o.variant # "ManualScalerTrait"
             THEN <<errNotManualScalerTrait>> ELSE NoErr,
     app |-> [a EXCEPT !.templates =
                 [i \in 1..Len(a.templates) |-> ScaleTemplate(a.templates[i], o)]]]

\* manualScalerModifier: the error it returns and the application it leaves.
manualScalerModifier(a, o) ==
    IF o.variant # "ManualScalerTrait"
    THEN [err |-> <<errNotManualScalerTrait>>, app |-> a]
    ELSE [err |-> NoErr,
          app |-> [a EXCEPT !.templates =
                      [i \in 1..Len(a.templates) |-> ScaleTemplate(a.templates[i], o)]]]

\* The appsv1.Deployment the packager builds: its pod template's node
\* selector (nil: the map was never made) and containers.
NewDeployment == [nodeSelector |-> Nil, containers |-> <<>>]

\* What a packager call leaves: the error returned, the application, whether
\* the call panicked instead of returning, and the Deployment built.
Packaged(e, a, p, d) == [err |-> e, app |-> a, panic |-> p, d |-> d]

\* d.Spec.Template.Spec.NodeSelector[...] = ... is reached: an assignment to
\* an entry of the nil map of the new Deployment, which panics.
SelectorPanics(o) == o.os # Nil \/ o.arch # Nil

\* corev1.Protocol(*p.Protocol) dereferences the port's protocol pointer.
PortPanics(o) ==
    \E i \in 1..Len(o.containers) :
        \E j \in 1..Len(o.containers[i].ports) :
            o.containers[i].ports[j].protocol = Nil

\* The corev1.Container made of one container of the workload.
KubernetesContainer(c) ==
    [name |-> c.name,
     ports |-> [j \in 1..Len(c.ports) |->
                   [name |-> c.ports[j].name,
                    containerPort |-> c.ports[j].port,
                    protocol |-> c.ports[j].protocol]]]

\* containerizedWorkloadPackager: builds a Deployment d from the workload and
\* returns; d is never appended to app.Spec.ResourceTemplates.
containerizedWorkloadPackager(a, o) ==
    IF o.variant # "ContainerizedWorkload"
    THEN Packaged(<<errNotContainerizedWorkload>>, a, FALSE, NewDeployment)
    ELSE IF SelectorPanics(o) \/ PortPanics(o)
    THEN Packaged(NoErr, a, TRUE, NewDeployment)
    ELSE Packaged(NoErr, a, FALSE,
                  [NewDeployment EXCEPT !.containers =
                      [i \in 1..Len(o.containers) |->
                          KubernetesContainer(o.containers[i])]])

\* genericPackager: the object's unstructured document, appended as one more
\* resource template.
genericPackager(a, o) ==
    Packaged(NoErr,
             [a EXCEPT !.templates = Append(@, Template(o.variant, "w1", 0, TRUE, TRUE))],
             FALSE, NewDeployment)

\* ------------------------------------------------------------------- store
\* meta.HaveSameController: both have a controller reference and the two
\* name the same controller.
HaveSameController(a, b) ==
    /\ a.controller # NoController
    /\ b.controller # NoController
    /\ a.controller = b.controller

\* Apply without the ControllersMustMatch option.
Apply_AnyController(st, desired, fail) ==
    IF fail # NoErr THEN [err |-> fail, store |-> st]
    ELSE [err |-> NoErr, store |-> Stored(desired)]

\* resource.Apply(ctx, c, app, resource.ControllersMustMatch()): create the
\* object when the server has none, refuse when the stored one has another
\* controller, patch it to the desired content otherwise.  fail is the error
\* of the server call (NoErr: the call goes through).
\* The Get and the Create / Patch inside resource.Apply are one step; the
\* patch carries the whole desired object, so the stored content becomes it.
Apply(st, desired, fail) ==
    IF fail # NoErr THEN [err |-> fail, store |-> st]
    ELSE IF ~st.exists THEN [err |-> NoErr, store |-> Stored(desired)]
    ELSE IF ~HaveSameController(st, desired)
         THEN [err |-> errDifferentController, store |-> st]
    ELSE [err |-> NoErr, store |-> Stored(desired)]

\* The error of a call made with a context whose deadline has passed.
errDeadline == <<"context deadline exceeded">>

\* The errors a call to the API server can end with, besides success: one of
\* the server's, or the expiry of the invocation's context.
ServerErrors == {errBoom, errDeadline}

\* The status update through a context that stays expired.
StatusOutcomes_DeadlineForgotten(s) == {NoErr} \cup ServerErrors

\* How the status update can end in an invocation that met s: every call of
\* the invocation carries the one context made at entry, so after a call that
\* ended on its deadline the update ends on it too.
StatusOutcomes(s) ==
    IF s.step = errDeadline THEN {errDeadline} ELSE {NoErr} \cup ServerErrors

NoCalls == [get |-> 0, getApp |-> 0, modify |-> 0, apply |-> 0, status |-> 0]
NoResult == [delay |-> noWait, err |-> NoErr]
NoneSeen == [before |-> NoCond, app |-> NoErr, step |-> NoErr, status |-> NoErr]

\* No packager or modifier called on its own.
NotCalled ==
    [fn |-> "none", obj |-> NoDescriptor, before |-> EmptyApp, after |-> EmptyApp,
     err |-> NoErr, panic |-> FALSE, d |-> NewDeployment, n |-> 0]

Init ==
    /\ store \in InitStores
    /\ desc \in [Ids -> TraitDescriptors \cup WorkloadDescriptors]
    /\ \A t \in Traits : desc[t] \in TraitDescriptors
    /\ \A w \in Workloads : desc[w] \in WorkloadDescriptors
    /\ pc = [p \in Ids |-> "idle"]
    /\ obj = [p \in Ids |-> NoDescriptor]
    /\ app = [p \in Ids |-> EmptyApp]
    /\ result = [p \in Ids |-> NoResult]
    /\ fault = [p \in Ids |-> "none"]
    /\ seen = [p \in Ids |-> NoneSeen]
    /\ calls = [p \in Ids |-> NoCalls]
    /\ pure = NotCalled
    /\ runs = [p \in Ids |-> 0]


\* Whether the server holds a KubernetesApplication under the name and
\* namespace that descriptor o gives.
Holds(o) == store.exists /\ store.name = o.workloadRef /\ store.namespace = o.namespace

\* What the server answers to a Get of something it holds / does not hold.
GetOutcomes(exists) ==
    IF exists THEN {NoErr} \cup ServerErrors ELSE {errNotFound} \cup ServerErrors

\* The invocation's state at entry of Reconcile.
Enter(p) ==
    /\ pc[p] \in {"idle", "done"}
    /\ runs[p] < MaxRuns
    /\ runs' = [runs EXCEPT ![p] = @ + 1]
    /\ app' = [app EXCEPT ![p] = EmptyApp]
    /\ calls' = [calls EXCEPT ![p] = [NoCalls EXCEPT !.get = 1]]

\* ------------------------------------------------------- trait Reconciler
\* The Get error wrapped without IgnoreNotFound.
TraitGetResult_NotFoundReturned(e) == [delay |-> noWait, err |-> Wrap(e, errGetTrait)]

\* The Get error requeued at the short wait.
TraitGetResult_ShortWait(e) ==
    [delay |-> shortWait, err |-> Wrap(IgnoreNotFound(e), errGetTrait)]

\* The Get error returned as it came.
TraitGetResult_Unwrapped(e) == [delay |-> noWait, err |-> IgnoreNotFound(e)]

\* What Reconcile returns when the Get of the trait fails with e.
TraitGetResult(e) == [delay |-> noWait, err |-> Wrap(IgnoreNotFound(e), errGetTrait)]

\* Whether the Get of the KubernetesApplication ends the invocation.
TraitGetAppFailed(e) == IgnoreNotFound(e) # NoErr

\* Every return after a status update requeues at the short wait.
TraitRequeueAfter_AlwaysShort(f) == shortWait

\* The return after a failed apply requeues at the long wait.
TraitRequeueAfter_LongAfterApply(f) ==
    IF f \in {"none", "apply"} THEN longWait ELSE shortWait

\* The requeue delay of the returns that follow a status update: the step
\* that failed, or none.
TraitRequeueAfter(f) == IF f = "none" THEN longWait ELSE shortWait

\* The status update's error dropped.
TraitStatusResult_ErrorDropped(f, e) == [delay |-> TraitRequeueAfter(f), err |-> NoErr]

\* What Reconcile returns after the status update ended with e.
TraitStatusResult(f, e) ==
    [delay |-> TraitRequeueAfter(f), err |-> Wrap(e, errUpdateTraitStatus)]

\* The condition carries the Get error without the errGetPackage text.
TraitCannotGetPackage_Unwrapped(o, e) == SetConditions(o, ReconcileError(e))

\* A modifier error recorded as success.
TraitCannotModify_Success(o, e) == SetConditions(o, ReconcileSuccess)

\* The trait with the condition each failing step sets on it.
TraitCannotGetPackage(o, e) == SetConditions(o, ReconcileError(Wrap(e, errGetPackage)))

TraitCannotModify(o, e) == SetConditions(o, ReconcileError(Wrap(e, errTraitModify)))

TraitCannotApply(o, e) ==
    SetConditions(o, ReconcileError(Wrap(e, errApplyTraitModification)))

\* The owner references the fetched application came with left in place.
TraitStamp_KeepFetched(a, o) == a

\* The application handed to resource.Apply: owner references of the trait,
\* name of the workload reference, namespace of the trait.
TraitStamp(a, o) ==
    [a EXCEPT !.controller = o.controller, !.name = o.workloadRef,
              !.namespace = o.namespace]

\* r.client.Get(ctx, req.NamespacedName, trait) and the return on its error.
TraitGet(p) ==
    /\ p \in Traits
    /\ Enter(p)
    /\ \E e \in GetOutcomes(desc[p].exists) :
         IF e # NoErr
         THEN /\ result' = [result EXCEPT ![p] = TraitGetResult(e)]
              /\ fault' = [fault EXCEPT ![p] = "get"]
              /\ seen' = [seen EXCEPT ![p] = [NoneSeen EXCEPT !.step = e]]
              /\ obj' = [obj EXCEPT ![p] = NoDescriptor]
              /\ pc' = [pc EXCEPT ![p] = "done"]
         ELSE /\ result' = [result EXCEPT ![p] = NoResult]
              /\ fault' = [fault EXCEPT ![p] = "none"]
              /\ seen' = [seen EXCEPT ![p] = [NoneSeen EXCEPT !.before = desc[p].cond]]
              /\ obj' = [obj EXCEPT ![p] = desc[p]]
              /\ pc' = [pc EXCEPT ![p] = "getApp"]
    /\ UNCHANGED <<store, desc, pure>>

\* The Get of the KubernetesApplication, and r.modifier.Modify on what it
\* returned.
TraitGetApp(p) ==
    /\ p \in Traits
    /\ pc[p] = "getApp"
    /\ \E e \in GetOutcomes(Holds(obj[p])) :
         IF TraitGetAppFailed(e)
         THEN /\ obj' = [obj EXCEPT ![p] =
                            TraitCannotGetPackage(@, e)]
              /\ fault' = [fault EXCEPT ![p] = "getApp"]
              /\ seen' = [seen EXCEPT ![p].step = e, ![p].app = e]
              /\ calls' = [calls EXCEPT ![p].getApp = @ + 1]
              /\ pc' = [pc EXCEPT ![p] = "status"]
              /\ app' = app
         ELSE LET got == IF e = NoErr
                         THEN [controller |-> store.controller,
                               templates |-> store.templates,
                               name |-> store.name, namespace |-> store.namespace]
                         ELSE EmptyApp
                  m == manualScalerModifier(got, obj[p])
              IN  /\ calls' = [calls EXCEPT ![p].getApp = @ + 1, ![p].modify = @ + 1]
                  /\ app' = [app EXCEPT ![p] = m.app]
                  /\ IF m.err # NoErr
                     THEN /\ obj' = [obj EXCEPT ![p] =
                                TraitCannotModify(@, m.err)]
                          /\ fault' = [fault EXCEPT ![p] = "modify"]
                          /\ seen' = [seen EXCEPT ![p].step = m.err, ![p].app = e]
                          /\ pc' = [pc EXCEPT ![p] = "status"]
                     ELSE /\ UNCHANGED <<obj, fault>>
                          /\ seen' = [seen EXCEPT ![p].app = e]
                          /\ pc' = [pc EXCEPT ![p] = "apply"]
    /\ UNCHANGED <<store, desc, result, runs, pure>>

\* The three setters and resource.Apply with ControllersMustMatch.
TraitApply(p) ==
    /\ p \in Traits
    /\ pc[p] = "apply"
    /\ \E fail \in {NoErr} \cup ServerErrors :
         LET desired == TraitStamp(app[p], obj[p])
             r == Apply(store, desired, fail)
         IN  /\ app' = [app EXCEPT ![p] = desired]
             /\ store' = r.store
             /\ calls' = [calls EXCEPT ![p].apply = @ + 1]
             /\ IF r.err # NoErr
                THEN /\ obj' = [obj EXCEPT ![p] =
                           TraitCannotApply(@, r.err)]
                     /\ fault' = [fault EXCEPT ![p] = "apply"]
                     /\ seen' = [seen EXCEPT ![p].step = r.err]
                ELSE /\ obj' = [obj EXCEPT ![p] = SetConditions(@, ReconcileSuccess)]
                     /\ UNCHANGED <<fault, seen>>
    /\ pc' = [pc EXCEPT ![p] = "status"]
    /\ UNCHANGED <<desc, result, runs, pure>>

\* r.client.Status().Update(ctx, trait) and the return that wraps its error.
TraitStatusUpdate(p) ==
    /\ p \in Traits
    /\ pc[p] = "status"
    /\ \E e \in StatusOutcomes(seen[p]) :
         /\ desc' = IF e = NoErr THEN [desc EXCEPT ![p].cond = obj[p].cond] ELSE desc
         /\ seen' = [seen EXCEPT ![p].status = e]
         /\ result' = [result EXCEPT ![p] = TraitStatusResult(fault[p], e)]
    /\ calls' = [calls EXCEPT ![p].status = @ + 1]
    /\ pc' = [pc EXCEPT ![p] = "done"]
    /\ UNCHANGED <<store, obj, app, fault, runs, pure>>


\* ----------------------------------------------------- workload Reconciler
\* What Reconcile returns when the Get of the workload fails with e.
WorkloadGetResult(e) ==
    [delay |-> noWait, err |-> Wrap(IgnoreNotFound(e), errGetWorkload)]

\* A workload is the originator of its KubernetesApplication: a missing one
\* starts empty.
WorkloadGetAppFailed(e) == IgnoreNotFound(e) # NoErr

WorkloadRequeueAfter(f) == IF f = "none" THEN longWait ELSE shortWait

WorkloadStatusResult(f, e) ==
    [delay |-> WorkloadRequeueAfter(f), err |-> Wrap(e, errUpdateWorkloadStatus)]

WorkloadCannotGetPackage(o, e) ==
    SetConditions(o, ReconcileError(Wrap(e, errGetWorkloadPackage)))

WorkloadCannotPackage(o, e) == SetConditions(o, ReconcileError(Wrap(e, errPackageWorkload)))

WorkloadCannotApply(o, e) ==
    SetConditions(o, ReconcileError(Wrap(e, errApplyWorkloadPackage)))

WorkloadStamp(a, o) ==
    [a EXCEPT !.controller = o.controller, !.name = o.workloadRef,
              !.namespace = o.namespace]

WorkloadGet(p) ==
    /\ p \in Workloads
    /\ Enter(p)
    /\ \E e \in GetOutcomes(desc[p].exists) :
         IF e # NoErr
         THEN /\ result' = [result EXCEPT ![p] = WorkloadGetResult(e)]
              /\ fault' = [fault EXCEPT ![p] = "get"]
              /\ seen' = [seen EXCEPT ![p] = [NoneSeen EXCEPT !.step = e]]
              /\ obj' = [obj EXCEPT ![p] = NoDescriptor]
              /\ pc' = [pc EXCEPT ![p] = "done"]
         ELSE /\ result' = [result EXCEPT ![p] = NoResult]
              /\ fault' = [fault EXCEPT ![p] = "none"]
              /\ seen' = [seen EXCEPT ![p] = [NoneSeen EXCEPT !.before = desc[p].cond]]
              /\ obj' = [obj EXCEPT ![p] = desc[p]]
              /\ pc' = [pc EXCEPT ![p] = "getApp"]
    /\ UNCHANGED <<store, desc, pure>>

WorkloadGetApp(p) ==
    /\ p \in Workloads
    /\ pc[p] = "getApp"
    /\ \E e \in GetOutcomes(Holds(obj[p])) :
         IF WorkloadGetAppFailed(e)
         THEN /\ obj' = [obj EXCEPT ![p] =
                            WorkloadCannotGetPackage(@, e)]
              /\ fault' = [fault EXCEPT ![p] = "getApp"]
              /\ seen' = [seen EXCEPT ![p].step = e, ![p].app = e]
              /\ calls' = [calls EXCEPT ![p].getApp = @ + 1]
              /\ pc' = [pc EXCEPT ![p] = "status"]
              /\ app' = app
         ELSE LET got == IF e = NoErr
                         THEN [controller |-> store.controller,
                               templates |-> store.templates,
                               name |-> store.name, namespace |-> store.namespace]
                         ELSE EmptyApp
                  m == containerizedWorkloadPackager(got, obj[p])
              IN  /\ calls' = [calls EXCEPT ![p].getApp = @ + 1, ![p].modify = @ + 1]
                  /\ app' = [app EXCEPT ![p] = m.app]
                  /\ IF m.err # NoErr
                     THEN /\ obj' = [obj EXCEPT ![p] =
                                WorkloadCannotPackage(@, m.err)]
                          /\ fault' = [fault EXCEPT ![p] = "modify"]
                          /\ seen' = [seen EXCEPT ![p].step = m.err, ![p].app = e]
                          /\ pc' = [pc EXCEPT ![p] = "status"]
                     ELSE /\ UNCHANGED <<obj, fault>>
                          /\ seen' = [seen EXCEPT ![p].app = e]
                          /\ pc' = [pc EXCEPT ![p] = "apply"]
    /\ UNCHANGED <<store, desc, result, runs, pure>>

WorkloadApply(p) ==
    /\ p \in Workloads
    /\ pc[p] = "apply"
    /\ \E fail \in {NoErr} \cup ServerErrors :
         LET desired == WorkloadStamp(app[p], obj[p])
             r == Apply(store, desired, fail)
         IN  /\ app' = [app EXCEPT ![p] = desired]
             /\ store' = r.store
             /\ calls' = [calls EXCEPT ![p].apply = @ + 1]
             /\ IF r.err # NoErr
                THEN /\ obj' = [obj EXCEPT ![p] =
                           WorkloadCannotApply(@, r.err)]
                     /\ fault' = [fault EXCEPT ![p] = "apply"]
                     /\ seen' = [seen EXCEPT ![p].step = r.err]
                ELSE /\ obj' = [obj EXCEPT ![p] = SetConditions(@, ReconcileSuccess)]
                     /\ UNCHANGED <<fault, seen>>
    /\ pc' = [pc EXCEPT ![p] = "status"]
    /\ UNCHANGED <<desc, result, runs, pure>>

WorkloadStatusUpdate(p) ==
    /\ p \in Workloads
    /\ pc[p] = "status"
    /\ \E e \in StatusOutcomes(seen[p]) :
         /\ desc' = IF e = NoErr THEN [desc EXCEPT ![p].cond = obj[p].cond] ELSE desc
         /\ seen' = [seen EXCEPT ![p].status = e]
         /\ result' = [result EXCEPT ![p] = WorkloadStatusResult(fault[p], e)]
    /\ calls' = [calls EXCEPT ![p].status = @ + 1]
    /\ pc' = [pc EXCEPT ![p] = "done"]
    /\ UNCHANGED <<store, obj, app, fault, runs, pure>>

\* ------------------------------------------------------------ specification
Next ==
    \E p \in Ids :
        \/ TraitGet(p)
        \/ TraitGetApp(p)
        \/ TraitApply(p)
        \/ TraitStatusUpdate(p)
        \/ WorkloadGet(p)
        \/ WorkloadGetApp(p)
        \/ WorkloadApply(p)
        \/ WorkloadStatusUpdate(p)

Spec == Init /\ [][Next]_vars

TypeOK ==
    /\ \A p \in Ids : pc[p] \in {"idle", "getApp", "apply", "status", "done"}
    /\ \A p \in Ids : result[p].delay \in {noWait, shortWait, longWait}
    /\ \A p \in Ids : runs[p] \in 0..MaxRuns


\* ------------------------------------------- packagers and modifier alone
\* Calls of one packager or modifier in a row on the same application.
MaxCalls == 2

Port(n, p, proto) == [name |-> n, port |-> p, protocol |-> proto]

Container(n, ports) == [name |-> n, ports |-> ports]

ContainerizedWorkload(os, arch, cs) ==
    [Descriptor("ContainerizedWorkload", "o1", 0) EXCEPT
        !.os = os, !.arch = arch, !.containers = cs]

\* The objects handed to a packager or modifier.
PureObjects ==
    {Descriptor("ManualScalerTrait", "o1", r) : r \in 1..MaxReplicas}
    \cup {ContainerizedWorkload(os, arch, <<>>) :
             os \in {Nil, "linux"}, arch \in {Nil, "amd64"}}
    \cup {ContainerizedWorkload(Nil, Nil, << Container("web", ports) >>) :
             ports \in { << Port("http", 80, "TCP") >>,
                         << Port("http", 80, Nil) >>,
                         << Port("http", 80, "TCP"), Port("dns", 53, Nil) >>,
                         << Port("http", 80, "TCP"), Port("dns", 53, "UDP") >> }}

\* The applications handed to a packager or modifier.
PureTemplates ==
    InitTemplates
    \cup { <<>>,
           << Template("Service", "svc", 0, TRUE, FALSE) >>,
           << Template("Deployment", "web", 1, TRUE, FALSE) >>,
           << Template("Deployment", "web", 1, FALSE, TRUE),
              Template("Service", "svc", 0, TRUE, FALSE) >>,
           << Template("ConfigMap", "cfg", 0, FALSE, FALSE),
              Template("Service", "svc", 0, TRUE, FALSE) >> }

InitPure ==
    /\ store = NotStored
    /\ desc = [p \in Ids |-> NoDescriptor]
    /\ pc = [p \in Ids |-> "idle"]
    /\ obj = [p \in Ids |-> NoDescriptor]
    /\ app = [p \in Ids |-> EmptyApp]
    /\ result = [p \in Ids |-> NoResult]
    /\ fault = [p \in Ids |-> "none"]
    /\ seen = [p \in Ids |-> NoneSeen]
    /\ calls = [p \in Ids |-> NoCalls]
    /\ runs = [p \in Ids |-> 0]
    /\ \E o \in PureObjects, t \in PureTemplates :
         LET a == [controller |-> "o1", templates |-> t,
                   name |-> "w1", namespace |-> "default"]
         IN  pure = [NotCalled EXCEPT !.obj = o, !.before = a, !.after = a]

\* One more call of fn, which left r, on the application the last call left.
Called(fn, r) ==
    /\ pure.n < MaxCalls
    /\ ~pure.panic
    /\ pure' = [pure EXCEPT !.fn = fn, !.before = pure.after, !.after = r.app,
                            !.err = r.err, !.panic = r.panic, !.d = r.d,
                            !.n = @ + 1]
    /\ UNCHANGED <<store, desc, pc, obj, app, result, fault, seen, calls, runs>>

CallGenericPackager ==
    Called("genericPackager", genericPackager(pure.after, pure.obj))

CallContainerizedWorkloadPackager ==
    Called("containerizedWorkloadPackager",
           containerizedWorkloadPackager(pure.after, pure.obj))

CallManualScalerModifier ==
    LET m == manualScalerModifier(pure.after, pure.obj)
    IN  Called("manualScalerModifier", Packaged(m.err, m.app, FALSE, NewDeployment))

NextPure ==
    \/ CallGenericPackager
    \/ CallContainerizedWorkloadPackager
    \/ CallManualScalerModifier

SpecPure == InitPure /\ [][NextPure]_vars

\* ------------------------------------------------------------------ claims
Returned(p) == pc[p] = "done"

\* The error texts of the reconciler that serves identity p.
ErrGet(p) == IF p \in Traits THEN errGetTrait ELSE errGetWorkload
ErrGetApp(p) == IF p \in Traits THEN errGetPackage ELSE errGetWorkloadPackage
ErrModify(p) == IF p \in Traits THEN errTraitModify ELSE errPackageWorkload
ErrApply(p) == IF p \in Traits THEN errApplyTraitModification ELSE errApplyWorkloadPackage
ErrUpdateStatus(p) == IF p \in Traits THEN errUpdateTraitStatus ELSE errUpdateWorkloadStatus

\* C1: an invocation in which the descriptor and the application were fetched,
\* the modifier / packager returned no error and the apply succeeded has set
\* the condition to Success with an empty message, whatever the fetched
\* condition was, has made one status update and returns the long wait; with
\* the status update carried out, the error is nil and the server holds the
\* Success condition.
C1_SuccessLongWait ==
    \A p \in Ids :
        (Returned(p) /\ fault[p] = "none") =>
            /\ calls[p].apply = 1
            /\ calls[p].modify = 1
            /\ obj[p].cond = [reason |-> "Success", message |-> <<>>]
            /\ calls[p].status = 1
            /\ result[p].delay = 60
            /\ (seen[p].status = NoErr =>
                    /\ result[p].err = NoErr
                    /\ desc[p].cond = [reason |-> "Success", message |-> <<>>])

\* A trait invocation that fetched an Error condition and the stored
\* application, succeeded, and wrote its status.
C1_Witness ==
    \E p \in Traits :
        /\ Returned(p) /\ fault[p] = "none"
        /\ seen[p].before.reason = "Error"
        /\ seen[p].app = NoErr
        /\ seen[p].status = NoErr
        /\ result[p].delay = 60

\* C2: when the descriptor does not exist, Reconcile returns the zero delay
\* and a nil error and makes no status update, no application Get, no apply.
C2_NotFoundIsQuiet ==
    \A p \in Ids :
        (Returned(p) /\ fault[p] = "get" /\ seen[p].step = errNotFound) =>
            /\ result[p] = [delay |-> 0, err |-> NoErr]
            /\ calls[p].status = 0
            /\ calls[p].getApp = 0
            /\ calls[p].modify = 0
            /\ calls[p].apply = 0

C2_Witness ==
    \E p \in Traits :
        /\ Returned(p) /\ fault[p] = "get" /\ seen[p].step = errNotFound
        /\ ~desc[p].exists

\* C3: when the Get of the application fails with an error other than
\* not-found, the condition is Error with that error wrapped in the "cannot
\* get KubernetesApplication" text, one status update is made, neither the
\* modifier / packager nor the apply runs, the delay is the short wait, and
\* the error is nil when the status update succeeds.
C3_GetPackageError ==
    \A p \in Ids :
        (Returned(p) /\ seen[p].app \notin {NoErr, errNotFound}) =>
            /\ fault[p] = "getApp"
            /\ obj[p].cond = [reason |-> "Error",
                              message |-> <<ErrGetApp(p)>> \o seen[p].app]
            /\ calls[p].status = 1
            /\ calls[p].modify = 0
            /\ calls[p].apply = 0
            /\ result[p].delay = 30
            /\ (seen[p].status = NoErr =>
                    /\ result[p].err = NoErr
                    /\ desc[p].cond = obj[p].cond)

C3_Witness ==
    \E p \in Traits :
        /\ Returned(p) /\ seen[p].app = errBoom
        /\ seen[p].status = NoErr
        /\ desc[p].cond.message = <<errGetPackage, "boom">>

\* A step of identity p's invocation.
StepOf(p) == pc'[p] # pc[p] \/ runs'[p] # runs[p]

\* C4: when the modifier / packager returns an error, the condition is Error
\* with that error wrapped, one status update is made, the delay is the short
\* wait and no apply is attempted; no step of that invocation changes the
\* stored application.
C4_ModifyErrorNoApply ==
    /\ [](\A p \in Ids :
            (Returned(p) /\ fault[p] = "modify") =>
                /\ obj[p].cond = [reason |-> "Error",
                                  message |-> <<ErrModify(p)>> \o seen[p].step]
                /\ seen[p].step # NoErr
                /\ calls[p].status = 1
                /\ calls[p].apply = 0
                /\ result[p].delay = 30)
    /\ [][\A p \in Ids :
            (StepOf(p) /\ fault'[p] = "modify") => store' = store]_vars

C4_Witness ==
    \E p \in Traits :
        /\ Returned(p) /\ fault[p] = "modify"
        /\ store.exists
        /\ obj[p].cond.message = <<errTraitModify, errNotManualScalerTrait>>

\* C5: an apply against a stored application that another owner controls
\* fails and leaves the stored application as it was; the invocation reports
\* condition Error and the short wait.
C5_ConflictNeverOverwrites ==
    /\ [][\A p \in Ids :
            ( /\ pc[p] = "apply" /\ pc'[p] = "status"
              /\ store.exists
              /\ store.controller \in Owners
              /\ store.controller # obj[p].controller ) =>
                /\ store' = store
                /\ fault'[p] = "apply"
                /\ obj'[p].cond.reason = "Error"]_vars
    /\ [](\A p \in Ids :
            (Returned(p) /\ fault[p] = "apply") =>
                /\ obj[p].cond.reason = "Error"
                /\ calls[p].status = 1
                /\ result[p].delay = 30)

C5_Witness ==
    \E p \in Traits :
        /\ Returned(p) /\ fault[p] = "apply"
        /\ seen[p].step = errDifferentController
        /\ obj[p].controller \in Owners
        /\ store.controller \in Owners
        /\ store.controller # obj[p].controller
        /\ Len(store.templates) > 0


\* Every step through the apply succeeded.
AllStepsSucceeded(p) == fault[p] = "none" /\ calls[p].apply = 1

\* C6 as stated, of the trait Reconciler: the long wait exactly when every
\* step through the apply succeeded, the short wait after an error in any
\* step, the zero delay only when the descriptor was not found.
C6_AsStated ==
    \A p \in Traits :
        Returned(p) =>
            /\ result[p].delay \in {0, 30, 60}
            /\ (result[p].delay = 60 <=> AllStepsSucceeded(p))
            /\ ((fault[p] # "none" /\ seen[p].step # errNotFound) => result[p].delay = 30)
            /\ (result[p].delay = 0 => (fault[p] = "get" /\ seen[p].step = errNotFound))

\* C6 amended: the long wait exactly when every step through the apply
\* succeeded, the short wait exactly after an error of the application Get,
\* of the modifier / packager or of the apply, and the zero delay exactly when
\* the Get of the descriptor failed, with not-found or with any other error.
C6_ThreeDelays ==
    \A p \in Ids :
        Returned(p) =>
            /\ result[p].delay \in {0, 30, 60}
            /\ (result[p].delay = 60 <=> AllStepsSucceeded(p))
            /\ (result[p].delay = 30 <=> fault[p] \in {"getApp", "modify", "apply"})
            /\ (result[p].delay = 0 <=> fault[p] = "get")
            /\ (fault[p] = "get" => seen[p].step \in {errNotFound} \cup ServerErrors)

\* A trait invocation whose Get failed with an error other than not-found
\* and that returned the zero delay.
C6_Witness ==
    \E p \in Traits :
        /\ Returned(p) /\ fault[p] = "get" /\ seen[p].step = errBoom
        /\ result[p].delay = 0
        /\ \E q \in Ids : Returned(q) /\ result[q].delay = 30

\* C7 as stated, of the trait Reconciler: a Get of the descriptor that fails
\* with an error other than not-found sets condition Error with the wrapped
\* message, makes a status update and returns the short wait with the wrapped
\* error.
C7_AsStated ==
    \A p \in Traits :
        (Returned(p) /\ fault[p] = "get" /\ seen[p].step # errNotFound) =>
            /\ obj[p].cond = [reason |-> "Error",
                              message |-> <<ErrGet(p)>> \o seen[p].step]
            /\ calls[p].status = 1
            /\ result[p].delay = 30
            /\ result[p].err = <<ErrGet(p)>> \o seen[p].step

\* C7 amended: a Get of the descriptor that fails with an error other than
\* not-found makes Reconcile return at once with a non-nil error and the zero
\* delay: no condition is set, no status update is made and no later step
\* runs.
C7_GetErrorReturnsAtOnce ==
    \A p \in Ids :
        (Returned(p) /\ fault[p] = "get" /\ seen[p].step # errNotFound) =>
            /\ obj[p].cond = NoCond
            /\ calls[p] = [get |-> 1, getApp |-> 0, modify |-> 0, apply |-> 0,
                           status |-> 0]
            /\ result[p].delay = 0
            /\ result[p].err # NoErr

\* A trait that carries a condition written by an earlier invocation and
\* whose next invocation failed at the Get.
C7_Witness ==
    \E p \in Traits :
        /\ Returned(p) /\ fault[p] = "get" /\ seen[p].step = errBoom
        /\ desc[p].exists
        /\ desc[p].cond.reason = "Success"

\* C8: an error other than not-found of the Get of the descriptor is returned
\* wrapped in the "cannot get trait" / "cannot get workload" text, with the
\* zero Result.
C8_GetErrorWrapped ==
    \A p \in Ids :
        (Returned(p) /\ fault[p] = "get" /\ seen[p].step # errNotFound) =>
            /\ result[p].err =
                   <<IF p \in Traits THEN "cannot get trait" ELSE "cannot get workload">>
                   \o seen[p].step
            /\ result[p].delay = 0

C8_Witness ==
    \E p \in Traits :
        /\ Returned(p) /\ fault[p] = "get"
        /\ result[p] = [delay |-> 0, err |-> <<"cannot get trait", "boom">>]

\* C9 as stated: a trait invocation whose application Get answers not-found
\* does not go on with an empty application to the apply and does not end
\* with condition Success and the long wait.
C9_AsStated ==
    \A p \in Traits :
        (Returned(p) /\ seen[p].app = errNotFound) =>
            /\ obj[p].cond.reason # "Success"
            /\ result[p].delay # 60

\* C10: when the status update fails, after whichever step, Reconcile returns
\* that error wrapped in the "cannot update ... status" text; and an
\* invocation makes one status update at most, exactly one once the
\* descriptor was fetched.
C10_StatusErrorReturned ==
    \A p \in Ids :
        /\ calls[p].status <= 1
        /\ Returned(p) =>
            /\ (fault[p] # "get" => calls[p].status = 1)
            /\ (seen[p].status # NoErr =>
                    /\ fault[p] \in {"getApp", "modify", "apply", "none"}
                    /\ result[p].err = <<ErrUpdateStatus(p)>> \o seen[p].status
                    /\ calls[p].status = 1)

\* The status update failed after the trait's apply had succeeded and after
\* the workload's packager had failed.
C10_Witness ==
    /\ \E p \in Traits :
        /\ Returned(p) /\ fault[p] = "none" /\ seen[p].status = errBoom
        /\ result[p].err = <<errUpdateTraitStatus, "boom">>
    /\ \E q \in Workloads :
        /\ Returned(q) /\ fault[q] = "modify" /\ seen[q].status = errBoom


\* ------------------------------------------- claims on packagers, modifier
\* The indexes of the templates of the trait's target kind.
Deployments(ts) == {i \in 1..Len(ts) : ts[i].kind = "Deployment"}

FirstOf(S) == CHOOSE i \in S : \A j \in S : i <= j

Modified == pure.fn = "manualScalerModifier" /\ pure.obj.variant = "ManualScalerTrait"

\* C11 as stated: a successful translation of a workload, by the generic or
\* by the containerized-workload packager, leaves the templates it found
\* followed by exactly one new template.
C11_AsStated ==
    ( /\ pure.fn \in {"genericPackager", "containerizedWorkloadPackager"}
      /\ pure.obj.variant = "ContainerizedWorkload"
      /\ pure.err = NoErr /\ ~pure.panic ) =>
        /\ Len(pure.after.templates) = Len(pure.before.templates) + 1
        /\ SubSeq(pure.after.templates, 1, Len(pure.before.templates))
               = pure.before.templates

\* C12 as stated: with two or more templates of kind Deployment, the modifier
\* sets the replica count of the first and leaves every other template as it
\* was.
C12_AsStated ==
    (Modified /\ Cardinality(Deployments(pure.before.templates)) >= 2) =>
        LET first == FirstOf(Deployments(pure.before.templates))
        IN  /\ Len(pure.after.templates) = Len(pure.before.templates)
            /\ pure.after.templates[first].replicas = pure.obj.replicaCount
            /\ \A j \in 1..Len(pure.before.templates) :
                   j # first => pure.after.templates[j] = pure.before.templates[j]

\* C13: on an application without a template of kind Deployment, the empty
\* one included, the modifier returns no error and leaves the templates as
\* they were.
C13_NoTargetUnchanged ==
    (Modified /\ Deployments(pure.before.templates) = {}) =>
        /\ pure.err = NoErr
        /\ ~pure.panic
        /\ pure.after = pure.before

C13_Witness ==
    /\ Modified
    /\ Deployments(pure.before.templates) = {}
    /\ Len(pure.before.templates) = 2
    /\ pure.before.templates[2].extra

C20_AsStated ==
    ( /\ pure.fn = "containerizedWorkloadPackager"
      /\ pure.obj.variant = "ContainerizedWorkload"
      /\ ~SelectorPanics(pure.obj)
      /\ Len(pure.obj.containers) > 0 ) =>
        /\ ~pure.panic
        /\ pure.err = NoErr
        /\ Len(pure.d.containers) = Len(pure.obj.containers)
        /\ \A i \in 1..Len(pure.obj.containers) :
               pure.d.containers[i].ports =
                   [j \in 1..Len(pure.obj.containers[i].ports) |->
                       [name |-> pure.obj.containers[i].ports[j].name,
                        containerPort |-> pure.obj.containers[i].ports[j].port,
                        protocol |-> pure.obj.containers[i].ports[j].protocol]]


\* ------------------------------------------------ claims on the reconcilers
\* The variant the reconciler of identity p is set up for, and the error its
\* modifier / packager returns for any other.
Expected(p) == IF p \in Traits THEN "ManualScalerTrait" ELSE "ContainerizedWorkload"

TypedError(p) ==
    IF p \in Traits THEN <<errNotManualScalerTrait>> ELSE <<errNotContainerizedWorkload>>

\* What the application Get that answered e left in the invocation's copy.
Fetched(e) ==
    IF e = NoErr
    THEN [controller |-> store.controller, templates |-> store.templates,
          name |-> store.name, namespace |-> store.namespace]
    ELSE EmptyApp

\* C15: the modifier / packager handed a descriptor of another variant returns
\* its typed error with the application exactly as it was fetched and nothing
\* written to the server; the invocation then ends with condition Error, the
\* typed error wrapped in its message, no apply, and the short wait.
C15_WrongVariantFailsFast ==
    /\ [][\A p \in Ids :
            ( /\ pc[p] = "getApp" /\ pc'[p] # "getApp"
              /\ obj[p].variant # Expected(p)
              /\ seen'[p].app \in {NoErr, errNotFound} ) =>
                /\ fault'[p] = "modify"
                /\ seen'[p].step = TypedError(p)
                /\ app'[p] = Fetched(seen'[p].app)
                /\ store' = store]_vars
    /\ [](\A p \in Ids :
            (Returned(p) /\ obj[p].exists /\ obj[p].variant # Expected(p)
                /\ seen[p].app \in {NoErr, errNotFound}) =>
                /\ obj[p].cond = [reason |-> "Error",
                                  message |-> <<ErrModify(p)>> \o TypedError(p)]
                /\ calls[p].apply = 0
                /\ result[p].delay = 30)

\* A trait of another type met a stored application with a Deployment and
\* left its copy as fetched.
C15_Witness ==
    \E p \in Traits :
        /\ Returned(p) /\ fault[p] = "modify"
        /\ seen[p].step = <<errNotManualScalerTrait>>
        /\ seen[p].app = NoErr
        /\ Deployments(app[p].templates) # {}
        /\ app[p].templates = store.templates
        /\ result[p].delay = 30

\* C16 as stated: the application comes to exist in the server only by the
\* apply of a workload invocation, never by a trait's, and no step removes it.
C16_AsStated ==
    [][ /\ (~store.exists /\ store'.exists) =>
               \E p \in Workloads : pc[p] = "apply" /\ pc'[p] = "status"
        /\ store.exists => store'.exists ]_vars

\* The stamp of the reconciler that serves identity p.
Stamp(p) == IF p \in Traits THEN TraitStamp(app[p], obj[p]) ELSE WorkloadStamp(app[p], obj[p])

\* C17: under every interleaving of a trait's and a workload's invocation on
\* the same application, an apply by an invocation whose controller is not the
\* stored application's leaves the stored application as it was and fails;
\* whenever the stored application changes it becomes, whole, the object one
\* invocation applied; the refused invocation ends with condition Error and
\* the short wait.
C17_NoMergeNoOverwrite ==
    /\ [][\A p \in Ids :
            ( /\ pc[p] = "apply" /\ pc'[p] = "status"
              /\ store.exists
              /\ ~HaveSameController(store, obj[p]) ) =>
                /\ store' = store
                /\ fault'[p] = "apply"]_vars
    /\ [][store' # store =>
            \E p \in Ids :
                /\ pc[p] = "apply" /\ pc'[p] = "status"
                /\ store' = Stored(Stamp(p))]_vars
    /\ [](\A p \in Ids :
            (Returned(p) /\ seen[p].step = errDifferentController) =>
                /\ fault[p] = "apply"
                /\ obj[p].cond.reason = "Error"
                /\ result[p].delay = 30)

\* Two invocations with different controllers both found no application; one
\* created it and the other's apply was refused.
C17_Witness ==
    \E p \in Ids, q \in Ids :
        /\ p # q
        /\ Returned(p) /\ Returned(q)
        /\ obj[p].controller \in Owners /\ obj[q].controller \in Owners
        /\ obj[p].controller # obj[q].controller
        /\ seen[p].app = errNotFound /\ seen[q].app = errNotFound
        /\ fault[q] = "none" /\ calls[q].apply = 1
        /\ seen[p].step = errDifferentController
        /\ result[p].delay = 30
        /\ store.exists /\ store.controller = obj[q].controller

DeadlineExpired(p) == seen[p].step = errDeadline \/ seen[p].status = errDeadline

\* C19 as stated, of the trait Reconciler: when the context expires during a
\* call of the invocation, whichever it is, the later calls fail too and the
\* invocation ends with the short wait and not with condition Success.
C19_AsStated ==
    \A p \in Traits :
        (Returned(p) /\ DeadlineExpired(p)) =>
            /\ (calls[p].status = 1 => seen[p].status = errDeadline)
            /\ result[p].delay = 30
            /\ obj[p].cond.reason # "Success"

\* C19 amended: when the context expires during a call of the invocation, the
\* later calls fail too and Reconcile returns a non-nil error.  Expiry in the
\* application Get or in the apply ends with condition Error and the short
\* wait; expiry in the Get of the descriptor ends with the zero delay and no
\* status update; expiry in the status update leaves the delay of the steps
\* before it, the long wait after a successful apply.  No condition of the
\* invocation reaches the server.
C19_DeadlineExpiry ==
    \A p \in Ids :
        (Returned(p) /\ DeadlineExpired(p)) =>
            /\ result[p].err # NoErr
            /\ (calls[p].status = 1 => seen[p].status = errDeadline)
            /\ (fault[p] = "get" =>
                    /\ result[p] = [delay |-> 0, err |-> <<ErrGet(p)>> \o errDeadline]
                    /\ calls[p].status = 0)
            /\ (fault[p] \in {"getApp", "apply"} =>
                    /\ obj[p].cond.reason = "Error"
                    /\ result[p].delay = 30)
            /\ (fault[p] = "modify" => result[p].delay = 30)
            /\ (fault[p] = "none" =>
                    /\ calls[p].apply = 1
                    /\ result[p].delay = 60)
            /\ (fault[p] # "get" =>
                    /\ result[p].err = <<ErrUpdateStatus(p)>> \o errDeadline
                    /\ desc[p].cond = seen[p].before)

\* A trait invocation whose apply ended on the deadline and whose status
\* update then failed on it as well.
C19_Witness ==
    \E p \in Traits :
        /\ Returned(p) /\ fault[p] = "apply"
        /\ seen[p].step = errDeadline
        /\ seen[p].status = errDeadline
        /\ obj[p].cond.message = <<errApplyTraitModification>> \o errDeadline
        /\ result[p].delay = 30


\* --------------------------------------------- claims on repeated packaging
\* The node selector pairs a workload's selectors ask for.
SelectorPairs(o) ==
    (IF o.os = Nil THEN {} ELSE {<<"beta.kubernetes.io/os", o.os>>})
    \cup (IF o.arch = Nil THEN {} ELSE {<<"kubernetes.io/arch", o.arch>>})

\* The pairs of a Deployment's node selector; a nil map has none.
PairsOf(d) == IF d.nodeSelector = Nil THEN {} ELSE d.nodeSelector

\* C21 as stated: the translation of a workload with an operating system
\* and / or an architecture selector completes without failure and its
\* Deployment carries one node selector pair per selector present, none when
\* the workload has neither.
C21_AsStated ==
    ( /\ pure.fn = "containerizedWorkloadPackager"
      /\ pure.obj.variant = "ContainerizedWorkload"
      /\ ~PortPanics(pure.obj) ) =>
        /\ ~pure.panic
        /\ pure.err = NoErr
        /\ PairsOf(pure.d) = SelectorPairs(pure.obj)

\* The template genericPackager makes of object o.
PackagedTemplate(o) == Template(o.variant, "w1", 0, TRUE, TRUE)

\* C24 as stated: packaging a workload into an application that already holds
\* the template an earlier packaging of the same workload made leaves the
\* number of templates as it was.
C24_AsStated ==
    ( /\ pure.fn \in {"genericPackager", "containerizedWorkloadPackager"}
      /\ pure.obj.variant = "ContainerizedWorkload"
      /\ pure.err = NoErr /\ ~pure.panic
      /\ \E i \in 1..Len(pure.before.templates) :
            pure.before.templates[i] = PackagedTemplate(pure.obj) ) =>
        Len(pure.after.templates) = Len(pure.before.templates)


\* ------------------------------------------- claims on stamping and repeats
\* C22 as stated: the application a trait invocation hands to the apply has
\* the name of the trait's workload reference and the trait's namespace, the
\* identity it was fetched under, and the controller reference of the
\* workload the trait refers to.
C22_AsStated ==
    [][\A t \in Traits :
         ( /\ pc[t] = "apply" /\ pc'[t] = "status"
           /\ desc[obj[t].workloadRef].exists ) =>
             /\ app'[t].name = obj[t].workloadRef
             /\ app'[t].namespace = obj[t].namespace
             /\ (seen[t].app = NoErr =>
                     /\ app'[t].name = app[t].name
                     /\ app'[t].namespace = app[t].namespace)
             /\ app'[t].controller = desc[obj[t].workloadRef].controller]_vars

\* C23 as stated: a trait invocation that follows a successful one, the trait
\* as that one left it and the stored application touched by no workload
\* invocation, leaves the stored application as it is when its calls to the
\* server go through, and ends with condition Success and the long wait.
C23_AsStated ==
    [][\A t \in Traits :
         ( /\ pc[t] = "apply" /\ pc'[t] = "status"
           /\ seen[t].before = ReconcileSuccess
           /\ \A w \in Workloads : runs[w] = 0
           /\ seen'[t].step \notin ServerErrors ) =>
             /\ store' = store
             /\ fault'[t] = "none"
             /\ obj'[t].cond = ReconcileSuccess]_vars

====
